---- MODULE Spec2Model ----
(***************************************************************************)
(* A model of the Slack bot: the text utilities of utils/util.py           *)
(* (clean_message, extract_think_and_answer, chunk_text,                   *)
(* format_slack_response, get_recent_conversations) and the two event      *)
(* handlers of bot.py with the process-wide SQLAlchemy session they share. *)
(*                                                                         *)
(* Text is a sequence of one-character strings.  Indices inside the string *)
(* operators are Python's (0-based, end-exclusive), so that the offsets of *)
(* the source (+ 1, + 8, max_length * 0.7, < 100) are the source's own.    *)
(***************************************************************************)
EXTENDS Integers, Sequences, FiniteSets, TLC

VARIABLES
    \* a function of utils/util.py under test
    pc,             \* its position: "start", "loop", "cleaned", "recleaned", "done"
    arg_text,       \* the text it was called with
    max_length,     \* chunk_text: its max_length argument
    text,           \* chunk_text: the local `text`, the part not yet chunked
    chunks,         \* chunk_text: the local `chunks`
    chunk_end,      \* chunk_text: the local `chunk_end` of the last iteration (-1 before one ran)
    cleaned_text,   \* clean_message(arg_text)
    recleaned_text, \* clean_message(cleaned_text)
    parsed,         \* extract_think_and_answer(arg_text)
    query,          \* get_recent_conversations: its arguments channel_id, model_id, limit
    context,        \* get_recent_conversations: the string it returned
    \* the database and the process of bot.py
    table,          \* the rows of `conversations`, in the order of their created_at
    db_new,         \* the session `db`: objects added and not yet flushed
    db_failed,      \* the session `db`: an operation raised and rollback() was not called since
    tasks,          \* the handler invocations: event, position and locals of each
    running,        \* the task that holds the event loop (0: none)
    replies,        \* what say() posted, in order: [task, channel, payload]
    updates         \* the UPDATEs of outgoing_message committed, in order: [task, message_id]

utilVars == <<arg_text, max_length, text, chunks, chunk_end, cleaned_text, recleaned_text, parsed>>
ctxVars == <<query, context>>
botVars == <<db_new, db_failed, tasks, running, replies, updates>>
vars == <<pc, utilVars, ctxVars, table, botVars>>

\* The values of the variables a specification does not use.
UtilIdle ==
    /\ arg_text = <<>>
    /\ max_length = 0
    /\ text = <<>>
    /\ chunks = <<>>
    /\ chunk_end = -1
    /\ cleaned_text = <<>>
    /\ recleaned_text = <<>>
    /\ parsed = <<>>

CtxIdle ==
    /\ query = <<>>
    /\ context = <<>>

BotIdle ==
    /\ db_new = <<>>
    /\ db_failed = FALSE
    /\ tasks = <<>>
    /\ running = 0
    /\ replies = <<>>
    /\ updates = <<>>

-----------------------------------------------------------------------------
(* Python's str operations on sequences of characters *)

Min(S) == CHOOSE x \in S : \A y \in S : x <= y
Max(S) == CHOOSE x \in S : \A y \in S : x >= y

\* All texts over alphabet A of length at most n.
Texts(A, n) == UNION {[1..k -> A] : k \in 0..n}

\* n copies of character c.
Rep(c, n) == [i \in 1..n |-> c]

\* The characters str.strip() removes that the model's alphabets contain.
Whitespace == {" ", "\n"}

\* s[a:b] for 0 <= a
Slice(s, a, b) == SubSeq(s, a + 1, IF b > Len(s) THEN Len(s) ELSE b)

\* s[a:]
SliceFrom(s, a) == SubSeq(s, a + 1, Len(s))

\* s.strip()
Strip(s) ==
    LET keep == {i \in 1..Len(s) : s[i] \notin Whitespace}
    IN  IF keep = {} THEN <<>> ELSE SubSeq(s, Min(keep), Max(keep))

\* s[i:].startswith(sub), i 0-based
StartsAt(s, sub, i) ==
    /\ i >= 0
    /\ i + Len(sub) <= Len(s)
    /\ SubSeq(s, i + 1, i + Len(sub)) = sub

\* s.find(sub, start): the lowest 0-based index >= start where sub occurs, or -1
Find(s, sub, start) ==
    LET at == {i \in start..(Len(s) - Len(sub)) : StartsAt(s, sub, i)}
    IN  IF at = {} THEN -1 ELSE Min(at)

\* s.rfind(sub): the highest 0-based index where sub occurs, or -1
RFind(s, sub) ==
    LET at == {i \in 0..(Len(s) - Len(sub)) : StartsAt(s, sub, i)}
    IN  IF at = {} THEN -1 ELSE Max(at)

-----------------------------------------------------------------------------
(* clean_message *)

\* The characters of the model's alphabet that the class [A-Z0-9] holds.
MentionIdChars == {"U", "1"}

\* SLACK_USER_MENTION_PATTERN = r'<@[A-Z0-9]+>' matched at 0-based index i:
\* the index after the match, or -1.  The class holds neither '<' nor '>', so
\* the greedy run of class characters is the only candidate.
MentionEnd(s, i) ==
    IF ~StartsAt(s, <<"<", "@">>, i) THEN -1
    ELSE LET stop == {k \in (i + 2)..(Len(s) - 1) : s[k + 1] \notin MentionIdChars}
         IN  IF stop = {} THEN -1
             ELSE LET k == Min(stop)
                  IN  IF k > i + 2 /\ s[k + 1] = ">" THEN k + 1 ELSE -1

\* re.sub(SLACK_USER_MENTION_PATTERN, '', s): one left-to-right pass over the
\* input, deleting each non-overlapping match; the output is not rescanned.
RECURSIVE SubMentionsFrom(_, _)
SubMentionsFrom(s, i) ==
    IF i >= Len(s) THEN <<>>
    ELSE LET e == MentionEnd(s, i)
         IN  IF e # -1 THEN SubMentionsFrom(s, e)
             ELSE <<s[i + 1]>> \o SubMentionsFrom(s, i + 1)

clean_message(s) == Strip(SubMentionsFrom(s, 0))

-----------------------------------------------------------------------------
(* chunk_text *)

\* `next_space - max_length < 100`
ExtendLimit == 100


\* A variant that splits before the last space instead of after it.
SplitPointBeforeSpace(t, m) ==
    LET window == Slice(t, 0, m)
        last_period == RFind(window, <<".">>)
        last_newline == RFind(window, <<"\n">>)
        last_space == RFind(window, <<" ">>)
        boundary ==
            IF last_period # -1 /\ 10 * last_period > 7 * m THEN last_period + 1
            ELSE IF last_newline # -1 /\ 10 * last_newline > 7 * m THEN last_newline + 1
            ELSE IF last_space # -1 THEN last_space
            ELSE m
        next_space == Find(t, <<" ">>, m)
    IN  IF boundary = m /\ Len(t) > m /\ next_space # -1 /\ next_space - m < ExtendLimit
        THEN next_space + 1
        ELSE boundary

\* The split point one iteration of the loop picks for the remaining text t
\* (len(t) > m).  `last_period > max_length * 0.7` is compared in tenths: for
\* the max_length values used here (no multiple of 10) the float product is
\* never within rounding of an integer.
SplitPoint(t, m) ==
    LET window == Slice(t, 0, m)
        last_period == RFind(window, <<".">>)
        last_newline == RFind(window, <<"\n">>)
        last_space == RFind(window, <<" ">>)
        boundary ==
            IF last_period # -1 /\ 10 * last_period > 7 * m THEN last_period + 1
            ELSE IF last_newline # -1 /\ 10 * last_newline > 7 * m THEN last_newline + 1
            ELSE IF last_space # -1 THEN last_space + 1
            ELSE m
        next_space == Find(t, <<" ">>, m)
    IN  IF boundary = m /\ Len(t) > m /\ next_space # -1 /\ next_space - m < ExtendLimit
        THEN next_space + 1
        ELSE boundary


\* A variant that appends the chunk even when it is empty.
AppendChunkAlways(cs, current_chunk) == Append(cs, current_chunk)

\* `if current_chunk: chunks.append(current_chunk)`
AppendChunk(cs, current_chunk) ==
    IF current_chunk # <<>> THEN Append(cs, current_chunk) ELSE cs

\* `while text:` is false: return chunks.
ChunkReturn ==
    /\ pc = "loop"
    /\ text = <<>>
    /\ pc' = "done"
    /\ UNCHANGED <<utilVars, ctxVars, table, botVars>>

\* `if len(text) <= max_length: chunks.append(text); break`
ChunkLast ==
    /\ pc = "loop"
    /\ text # <<>>
    /\ Len(text) <= max_length
    /\ chunks' = Append(chunks, text)
    /\ pc' = "done"
    /\ UNCHANGED <<arg_text, max_length, text, chunk_end, cleaned_text, recleaned_text, parsed>>
    /\ UNCHANGED <<ctxVars, table, botVars>>

\* One iteration that splits.
ChunkSplit ==
    /\ pc = "loop"
    /\ text # <<>>
    /\ Len(text) > max_length
    /\ chunk_end' = SplitPoint(text, max_length)
    /\ chunks' = AppendChunk(chunks, Strip(Slice(text, 0, chunk_end')))
    /\ text' = Strip(SliceFrom(text, chunk_end'))
    /\ UNCHANGED <<pc, arg_text, max_length, cleaned_text, recleaned_text, parsed>>
    /\ UNCHANGED <<ctxVars, table, botVars>>

\* chunk_text(s, m) as a value, for its callers.
RECURSIVE ChunkFrom(_, _, _)
ChunkFrom(cs, t, m) ==
    IF t = <<>> THEN cs
    ELSE IF Len(t) <= m THEN Append(cs, t)
    ELSE LET e == SplitPoint(t, m)
         IN  ChunkFrom(AppendChunk(cs, Strip(Slice(t, 0, e))), Strip(SliceFrom(t, e)), m)

chunk_text(s, m) == ChunkFrom(<<>>, s, m)

-----------------------------------------------------------------------------
(* extract_think_and_answer *)

THINK_OPEN == <<"<", "t", "h", "i", "n", "k", ">">>
THINK_CLOSE == <<"<", "/", "t", "h", "i", "n", "k", ">">>

\* [match.group(1).strip() for match in re.finditer(r'<think>(.*?)</think>', s, re.DOTALL)]
\* from 0-based position pos on: the leftmost '<think>' that some '</think>'
\* follows, lazily up to the nearest such '</think>'; the scan goes on after it.
RECURSIVE ThinkMatchesFrom(_, _)
ThinkMatchesFrom(s, pos) ==
    LET open == Find(s, THINK_OPEN, pos)
        close == IF open = -1 THEN -1 ELSE Find(s, THINK_CLOSE, open + 7)
    IN  IF close = -1 THEN <<>>
        ELSE <<Strip(Slice(s, open + 7, close))>> \o ThinkMatchesFrom(s, close + 8)


\* A variant that takes the answer after the first '</think>'.
extract_after_first_end(response_text) ==
    LET thinking_parts == ThinkMatchesFrom(response_text, 0)
        think_end == Find(response_text, THINK_CLOSE, 0)
    IN  IF think_end = -1
        THEN [none |-> TRUE, thinking_parts |-> <<>>, answer |-> Strip(response_text)]
        ELSE [none |-> FALSE, thinking_parts |-> thinking_parts,
              answer |-> Strip(SliceFrom(response_text, think_end + 8))]

\* The pair (thinking_parts, answer); `none` says that thinking_parts is None.
extract_think_and_answer(response_text) ==
    LET thinking_parts == ThinkMatchesFrom(response_text, 0)
        think_end == RFind(response_text, THINK_CLOSE)
    IN  IF think_end = -1
        THEN [none |-> TRUE, thinking_parts |-> <<>>, answer |-> Strip(response_text)]
        ELSE [none |-> FALSE, thinking_parts |-> thinking_parts,
              answer |-> Strip(SliceFrom(response_text, think_end + 8))]

-----------------------------------------------------------------------------
(* format_slack_response *)

\* `def chunk_text(text, max_length: int = 2900)`
DefaultMaxLength == 2900

\* re.sub(r'\*\*(.*?)\*\*', r'*\1*', s) from 0-based position i on.  '.' does
\* not match a newline, so '**' opens a match only if the nearest later '**'
\* comes before the next newline.
RECURSIVE BoldSubFrom(_, _)
BoldSubFrom(s, i) ==
    IF i >= Len(s) THEN <<>>
    ELSE LET close == Find(s, <<"*", "*">>, i + 2)
             newline == Find(s, <<"\n">>, i + 2)
         IN  IF /\ StartsAt(s, <<"*", "*">>, i)
                /\ close # -1
                /\ (newline = -1 \/ newline > close)
             THEN <<"*">> \o Slice(s, i + 2, close) \o <<"*">> \o BoldSubFrom(s, close + 2)
             ELSE <<s[i + 1]>> \o BoldSubFrom(s, i + 1)

Section(t) == [type |-> "section", text |-> [type |-> "mrkdwn", text |-> t]]
Divider == [type |-> "divider"]

\* "*Thinking Process* :arrow_down:"
ThinkingHeading ==
    <<"*", "T", "h", "i", "n", "k", "i", "n", "g", " ", "P", "r", "o", "c", "e", "s", "s",
      "*", " ", ":", "a", "r", "r", "o", "w", "_", "d", "o", "w", "n", ":">>

\* "*Answer:*"
AnswerHeading == <<"*", "A", "n", "s", "w", "e", "r", ":", "*">>

\* "```"; the character U+0060, which a TLA+ string cannot hold, is written "BACKTICK".
CodeFence == <<"BACKTICK", "BACKTICK", "BACKTICK">>

\* The blocks of every chunk of every thinking part, in order.
RECURSIVE ThinkingBlocks(_)
ThinkingBlocks(parts) ==
    IF parts = <<>> THEN <<>>
    ELSE LET cs == chunk_text(Head(parts), DefaultMaxLength)
         IN  [i \in 1..Len(cs) |-> Section(CodeFence \o cs[i] \o CodeFence)]
             \o ThinkingBlocks(Tail(parts))

format_slack_response(response_text) ==
    LET r == extract_think_and_answer(response_text)
        formatted_answer == BoldSubFrom(r.answer, 0)
        answer_chunks == chunk_text(formatted_answer, DefaultMaxLength)
        thinking ==
            IF r.thinking_parts # <<>>
            THEN <<Section(ThinkingHeading)>> \o ThinkingBlocks(r.thinking_parts) \o <<Divider>>
            ELSE <<>>
    IN  [blocks |-> thinking \o <<Section(AnswerHeading)>>
                    \o [i \in 1..Len(answer_chunks) |-> Section(answer_chunks[i])]]

-----------------------------------------------------------------------------
(* get_recent_conversations *)

\* `limit: int = 5`
DefaultLimit == 5

\* The openings of the two lines of a turn, each up to its double quote.
UserPrefix == <<"u", "s", "e", "r", ":", " ", "\"">>
AssistantPrefix == <<"a", "s", "s", "i", "s", "t", "a", "n", "t", ":", " ", "\"">>

\* "\n".join(parts)
RECURSIVE JoinLines(_)
JoinLines(parts) ==
    IF parts = <<>> THEN <<>>
    ELSE IF Len(parts) = 1 THEN parts[1]
    ELSE parts[1] \o <<"\n">> \o JoinLines(Tail(parts))

\* .order_by(desc(Conversation.created_at)) of a set of rows
RECURSIVE OrderByCreatedAtDesc(_)
OrderByCreatedAtDesc(rows) ==
    IF rows = {} THEN <<>>
    ELSE LET newest == CHOOSE r \in rows : \A q \in rows : q.created_at <= r.created_at
         IN  <<newest>> \o OrderByCreatedAtDesc(rows \ {newest})

\* .limit(n)
Limit(rows, n) == SubSeq(rows, 1, IF Len(rows) < n THEN Len(rows) ELSE n)

\* reversed(rows)
Reversed(rows) == [i \in 1..Len(rows) |-> rows[Len(rows) + 1 - i]]


\* A variant that filters on the channel alone.
QueryRecentOfChannel(rows, channel_id, model_id, limit) ==
    Limit(OrderByCreatedAtDesc({rows[i] : i \in {j \in 1..Len(rows) :
              rows[j].channel_id = channel_id}}), limit)

\* db.query(Conversation).filter(channel_id == .., model_name == ..)
\*   .order_by(desc(created_at)).limit(limit).all()
QueryRecent(rows, channel_id, model_id, limit) ==
    Limit(OrderByCreatedAtDesc({rows[i] : i \in {j \in 1..Len(rows) :
              /\ rows[j].channel_id = channel_id
              /\ rows[j].model_name = model_id}}), limit)

\* The two context_parts of each conversation, in order.
RECURSIVE ContextParts(_)
ContextParts(conversations) ==
    IF conversations = <<>> THEN <<>>
    ELSE LET conv == Head(conversations)
             answer == extract_think_and_answer(conv.outgoing_message).answer
         IN  <<UserPrefix \o conv.incoming_message \o <<"\"">>,
               AssistantPrefix \o answer \o <<"\"">>>>
             \o ContextParts(Tail(conversations))

\* The try block of get_recent_conversations on the rows the database holds.
get_recent_conversations(rows, channel_id, model_id, limit) ==
    JoinLines(ContextParts(Reversed(QueryRecent(rows, channel_id, model_id, limit))))

-----------------------------------------------------------------------------
(* chunk_text under test *)

ChunkChars == {"a", ".", " ", "\n"}
MaxChunkLen == 5
MaxPad == 3
MaxTailLen == 2
MaxMaxLength == 7

\* Every text over the alphabet up to MaxChunkLen, behind a word of up to
\* MaxPad letters (so that a window can be all one word); and a word as long
\* as the forward search for a space reaches, with a short tail.
ChunkInputs ==
    {Rep("a", p) \o t : p \in 0..MaxPad, t \in Texts(ChunkChars, MaxChunkLen)}
    \cup {Rep("a", ExtendLimit) \o t : t \in Texts(ChunkChars, MaxTailLen)}

InitChunk ==
    /\ pc = "loop"
    /\ arg_text \in ChunkInputs
    /\ max_length \in 0..MaxMaxLength
    /\ text = arg_text
    /\ chunks = <<>>
    /\ chunk_end = -1
    /\ cleaned_text = <<>>
    /\ recleaned_text = <<>>
    /\ parsed = <<>>
    /\ CtxIdle
    /\ table = <<>>
    /\ BotIdle

NextChunk == ChunkReturn \/ ChunkLast \/ ChunkSplit

SpecChunk == InitChunk /\ [][NextChunk]_vars

\* The first m characters of t hold a space, or a period or newline at an
\* index > 0.7 * m.
HasSplitPoint(t, m) ==
    \E i \in 0..(m - 1) :
        /\ i < Len(t)
        /\ \/ t[i + 1] = " "
           \/ t[i + 1] \in {".", "\n"} /\ 10 * i > 7 * m

\* C1: with max_length >= 1, the chunk an iteration emits is no longer than
\* max_length whenever the window offered a split point, and the final chunk
\* is no longer than max_length.
C1_ChunkWithinMaxLength ==
    [][(/\ pc = "loop"
        /\ max_length >= 1
        /\ chunks' # chunks
        /\ (Len(text) > max_length => HasSplitPoint(text, max_length)))
       => Len(chunks'[Len(chunks')]) <= max_length]_vars

IsBlank(s) == \A i \in 1..Len(s) : s[i] \in Whitespace

\* C9 (as claimed): with max_length >= 1 the result is empty only for the
\* empty input, and chunk(t) = [t] whenever 0 < len(t) <= max_length.
C9_EmptyOnlyForEmptyInput ==
    (pc = "done" /\ max_length >= 1) =>
        /\ chunks = <<>> => arg_text = <<>>
        /\ (0 < Len(arg_text) /\ Len(arg_text) <= max_length) => chunks = <<arg_text>>

\* C9 (amended): with max_length >= 1 the result is empty exactly when the
\* input is empty or is only whitespace and longer than max_length; and
\* chunk(t) = [t] whenever 0 < len(t) <= max_length.
C9_EmptyOnlyForBlankInput ==
    (pc = "done" /\ max_length >= 1) =>
        /\ chunks = <<>> <=>
              (arg_text = <<>> \/ (IsBlank(arg_text) /\ Len(arg_text) > max_length))
        /\ (0 < Len(arg_text) /\ Len(arg_text) <= max_length) => chunks = <<arg_text>>

C9_Witness ==
    /\ pc = "done"
    /\ max_length >= 1
    /\ arg_text # <<>>
    /\ chunks = <<>>

\* C10 (as claimed): for every max_length >= 0 an iteration that splits picks
\* a split point >= 1.
C10_SplitPointPositive ==
    (pc = "loop" /\ chunk_end # -1) => chunk_end >= 1

\* C10 (amended): for every max_length >= 1, an iteration that does not emit
\* the final chunk picks a split point >= 1 and leaves a strictly shorter
\* text: len(text) is a variant of the loop, which therefore stops.
C10_ProgressForPositiveMaxLength ==
    [][(pc = "loop" /\ max_length >= 1 /\ Len(text) > max_length)
         => (chunk_end' >= 1 /\ Len(text') < Len(text))]_vars

C10_Witness ==
    /\ pc = "done"
    /\ max_length >= 1
    /\ Len(chunks) >= 3

-----------------------------------------------------------------------------
(* clean_message under test *)

CleanChars == {"<", "@", "U", ">", " "}
MaxCleanLen == 8

InitClean ==
    /\ pc = "start"
    /\ arg_text \in Texts(CleanChars, MaxCleanLen)
    /\ cleaned_text = <<>>
    /\ recleaned_text = <<>>
    /\ max_length = 0
    /\ text = <<>>
    /\ chunks = <<>>
    /\ chunk_end = -1
    /\ parsed = <<>>
    /\ CtxIdle
    /\ table = <<>>
    /\ BotIdle

Clean ==
    /\ pc = "start"
    /\ cleaned_text' = clean_message(arg_text)
    /\ pc' = "cleaned"
    /\ UNCHANGED <<arg_text, recleaned_text, max_length, text, chunks, chunk_end, parsed>>
    /\ UNCHANGED <<ctxVars, table, botVars>>

CleanAgain ==
    /\ pc = "cleaned"
    /\ recleaned_text' = clean_message(cleaned_text)
    /\ pc' = "recleaned"
    /\ UNCHANGED <<arg_text, cleaned_text, max_length, text, chunks, chunk_end, parsed>>
    /\ UNCHANGED <<ctxVars, table, botVars>>

NextClean == Clean \/ CleanAgain

SpecClean == InitClean /\ [][NextClean]_vars

\* s holds a substring matching '<@' + one or more of [A-Z0-9] + '>'
HasMention(s) ==
    \E i \in 1..Len(s) : \E j \in (i + 3)..Len(s) :
        /\ s[i] = "<"
        /\ s[i + 1] = "@"
        /\ s[j] = ">"
        /\ \A k \in (i + 2)..(j - 1) : s[k] \in {"U", "1"}

\* C5: clean(text) holds no substring matching the mention pattern, and clean
\* is idempotent, clean(clean(text)) = clean(text), for every input text.
C5_CleanRemovesAllAndIdempotent ==
    /\ pc \in {"cleaned", "recleaned"} => ~HasMention(cleaned_text)
    /\ pc = "recleaned" => recleaned_text = cleaned_text

-----------------------------------------------------------------------------
(* extract_think_and_answer under test *)

\* The pieces responses are put together from: the two tags, letters, a
\* space, and a lone '<' (so that a tag can be broken).
ThinkTokens == {THINK_OPEN, THINK_CLOSE, <<"A">>, <<"B">>, <<" ">>, <<"<">>}
MaxThinkTokens == 5

RECURSIVE Concat(_)
Concat(pieces) == IF pieces = <<>> THEN <<>> ELSE Head(pieces) \o Concat(Tail(pieces))

\* "<think>A</think><think>B</think>tail"
ExampleResponse ==
    THINK_OPEN \o <<"A">> \o THINK_CLOSE \o THINK_OPEN \o <<"B">> \o THINK_CLOSE
    \o <<"t", "a", "i", "l">>

ThinkInputs ==
    {Concat(ps) : ps \in Texts(ThinkTokens, MaxThinkTokens)} \cup {ExampleResponse}

InitThink ==
    /\ pc = "start"
    /\ arg_text \in ThinkInputs
    /\ max_length = 0
    /\ text = <<>>
    /\ chunks = <<>>
    /\ chunk_end = -1
    /\ cleaned_text = <<>>
    /\ recleaned_text = <<>>
    /\ parsed = <<>>
    /\ CtxIdle
    /\ table = <<>>
    /\ BotIdle

Extract ==
    /\ pc = "start"
    /\ parsed' = extract_think_and_answer(arg_text)
    /\ pc' = "done"
    /\ UNCHANGED <<arg_text, max_length, text, chunks, chunk_end, cleaned_text, recleaned_text>>
    /\ UNCHANGED <<ctxVars, table, botVars>>

NextThink == Extract

SpecThink == InitThink /\ [][NextThink]_vars

\* The 0-based indices where a start tag, an end tag begins.
OpenTags(s) == {i \in 0..Len(s) : StartsAt(s, THINK_OPEN, i)}
CloseTags(s) == {i \in 0..Len(s) : StartsAt(s, THINK_CLOSE, i)}

\* The end tag nearest after the start tag at o (-1: none follows).
NearestClose(s, o) ==
    LET after == {c \in CloseTags(s) : c >= o + Len(THINK_OPEN)}
    IN  IF after = {} THEN -1 ELSE Min(after)

\* The start tags that begin a span: an end tag follows, and the tag lies in
\* no span that begins further left.
RECURSIVE SpanStarts(_, _)
SpanStarts(s, upto) ==
    IF upto < 0 THEN {}
    ELSE LET before == SpanStarts(s, upto - 1)
         IN  IF /\ upto \in OpenTags(s)
                /\ NearestClose(s, upto) # -1
                /\ \A o \in before : upto >= NearestClose(s, o) + Len(THINK_CLOSE)
             THEN before \cup {upto}
             ELSE before

\* A set of numbers as the ascending sequence.
RECURSIVE Ascending(_)
Ascending(S) == IF S = {} THEN <<>> ELSE <<Min(S)>> \o Ascending(S \ {Min(S)})

InnerTexts(s) ==
    LET starts == Ascending(SpanStarts(s, Len(s)))
    IN  [k \in 1..Len(starts) |->
            Strip(SubSeq(s, starts[k] + Len(THINK_OPEN) + 1, NearestClose(s, starts[k])))]

-----------------------------------------------------------------------------
(* get_recent_conversations under test *)

Channels == {"C1", "C2"}
\* MODEL_NAME = os.getenv("MODEL_NAME", ""): the configured model identifier.
MODEL_NAME == "deepseek-r1"
ModelNames == {MODEL_NAME, "echo"}
MaxRows == 3
MaxLimit == 3

\* The incoming message of the n-th row: "q" and n letters, so that the rows
\* of a context can be told apart.
Question(n) == <<"q">> \o Rep("x", n)

\* Outgoing messages: none yet, a plain answer, reasoning and an answer.
CtxOutgoing ==
    {<<>>, <<"n", "o">>, THINK_OPEN \o <<"r">> \o THINK_CLOSE \o <<" ", "y", "e", "s">>}

\* A row of the table conversations.
Conversation(user_id, channel_id, message_id, incoming_message, outgoing_message, model_name, created_at) ==
    [user_id |-> user_id, channel_id |-> channel_id, message_id |-> message_id,
     incoming_message |-> incoming_message, outgoing_message |-> outgoing_message,
     model_name |-> model_name, created_at |-> created_at]

InitContext ==
    /\ pc = "start"
    /\ UtilIdle
    /\ CtxIdle
    /\ table = <<>>
    /\ BotIdle

\* A row some handler stored earlier.
StoreRow ==
    /\ pc = "start"
    /\ Len(table) < MaxRows
    /\ \E channel_id \in Channels, model_name \in ModelNames, outgoing \in CtxOutgoing :
          table' = Append(table,
                     Conversation("U1", channel_id, Len(table) + 1, Question(Len(table) + 1),
                                  outgoing, model_name, Len(table) + 1))
    /\ UNCHANGED <<pc, utilVars, ctxVars, botVars>>

BuildContext ==
    /\ pc = "start"
    /\ \E channel_id \in Channels, model_id \in ModelNames, limit \in 1..MaxLimit :
          /\ query' = [channel_id |-> channel_id, model_id |-> model_id, limit |-> limit]
          /\ context' = get_recent_conversations(table, channel_id, model_id, limit)
    /\ pc' = "done"
    /\ UNCHANGED <<utilVars, table, botVars>>

NextContext == StoreRow \/ BuildContext

SpecContext == InitContext /\ [][NextContext]_vars

\* The rows of the query's channel and model.
Matching == {i \in 1..Len(table) :
                /\ table[i].channel_id = query.channel_id
                /\ table[i].model_name = query.model_id}

\* Those of them with fewer than `limit` matching rows created after them.
MostRecent == {i \in Matching :
                  Cardinality({j \in Matching : table[j].created_at > table[i].created_at})
                      < query.limit}

\* The answer part of an outgoing message.
AnswerPart(outgoing) ==
    IF CloseTags(outgoing) = {} THEN Strip(outgoing)
    ELSE Strip(SubSeq(outgoing, Max(CloseTags(outgoing)) + Len(THINK_CLOSE) + 1, Len(outgoing)))

\* The lines of the rows of S, oldest first (the table is in created_at order).
ExpectedLines(S) ==
    LET rows == Ascending(S)
    IN  [k \in 1..(2 * Len(rows)) |->
            IF k % 2 = 1
            THEN UserPrefix \o table[rows[(k + 1) \div 2]].incoming_message \o <<"\"">>
            ELSE AssistantPrefix \o AnswerPart(table[rows[k \div 2]].outgoing_message)
                 \o <<"\"">>]

MinOf(a, b) == IF a < b THEN a ELSE b

\* C8: the context is empty when no row matches; otherwise it is the
\* 2 * min(n, limit) lines of the min(n, limit) most recently created rows of
\* that channel and model, oldest first, a user line then an assistant line
\* with the answer part for each row; no other row contributes.
C8_BuildContext ==
    pc = "done" =>
        /\ Matching = {} => context = <<>>
        /\ Cardinality(MostRecent) = MinOf(Cardinality(Matching), query.limit)
        /\ Len(ExpectedLines(MostRecent)) = 2 * MinOf(Cardinality(Matching), query.limit)
        /\ context = JoinLines(ExpectedLines(MostRecent))

\* More rows match than the limit allows, and a row of the table does not match.
C8_Witness ==
    /\ pc = "done"
    /\ Cardinality(Matching) = 2
    /\ query.limit = 1
    /\ Len(table) = 3
    /\ context # <<>>

-----------------------------------------------------------------------------
(* The session `db = SessionLocal()` that every handler uses               *)
(* (sessionmaker(autocommit=False, autoflush=False)).                      *)
(*                                                                         *)
(* A session state is [table, new, dirty, failed]: the committed rows, the *)
(* objects added and not flushed, the attribute changes not flushed (row   *)
(* index and new outgoing_message), and whether an operation raised with   *)
(* no rollback() since.  Until rollback() every operation of a failed      *)
(* session raises.  Between two steps of the model `dirty` is empty.  The  *)
(* columns id and updated_at are left out.                                 *)

DbState == [table |-> table, new |-> db_new, dirty |-> {}, failed |-> db_failed]

\* db.add(conversation)
DbAdd(db, conversation) == [db EXCEPT !.new = Append(@, conversation)]

\* message_id = Column(String, unique=True): the INSERTs of a flush violate it
UniqueViolation(db) ==
    \/ \E i \in 1..Len(db.new), j \in 1..Len(db.table) :
          db.new[i].message_id = db.table[j].message_id
    \/ \E i, j \in 1..Len(db.new) : i # j /\ db.new[i].message_id = db.new[j].message_id

\* The rows after the UPDATEs and INSERTs of a flush; created_at is the
\* server's now(), later for each row than for the rows before it.
Flushed(db) ==
    [i \in 1..Len(db.table) |->
        IF \E d \in db.dirty : d.row = i
        THEN [db.table[i] EXCEPT !.outgoing_message =
                 (CHOOSE d \in db.dirty : d.row = i).outgoing_message]
        ELSE db.table[i]]
    \o [k \in 1..Len(db.new) |-> [db.new[k] EXCEPT !.created_at = Len(db.table) + k]]

\* db.commit(): [db, raised].  `fault` is a failure of the store itself.
DbCommit(db, fault) ==
    IF db.failed \/ fault \/ UniqueViolation(db)
    THEN [db |-> [db EXCEPT !.failed = TRUE], raised |-> TRUE]
    ELSE [db |-> [db EXCEPT !.table = Flushed(db), !.new = <<>>, !.dirty = {}],
          raised |-> FALSE]

\* db.rollback()
DbRollback(db) == [db EXCEPT !.new = <<>>, !.dirty = {}, !.failed = FALSE]


\* db.query(Conversation).filter_by(message_id=message_id).first(): the index
\* of the row, 0 for None.  With autoflush off the query sees committed rows only.
DbQueryFirst(db, message_id) ==
    LET found == {i \in 1..Len(db.table) : db.table[i].message_id = message_id}
    IN  IF found = {} THEN 0 ELSE Min(found)

\* conversation.outgoing_message = response_text
DbSetOutgoing(db, row, response_text) ==
    [db EXCEPT !.dirty = @ \cup {[row |-> row, outgoing_message |-> response_text]}]

-----------------------------------------------------------------------------
(* bot.py: handle_message and handle_mention *)

\* REQUEST_TIMEOUT = 120 (seconds): the model call ends, with a response or an error.
REQUEST_TIMEOUT == 120

\* "Sorry, the request took too long to process. Please try again."
TimeoutReply ==
    <<"S", "o", "r", "r", "y", ",", " ", "t", "h", "e", " ", "r", "e", "q", "u", "e",
      "s", "t", " ", "t", "o", "o", "k", " ", "t", "o", "o", " ", "l", "o", "n", "g",
      " ", "t", "o", " ", "p", "r", "o", "c", "e", "s", "s", ".", " ", "P", "l", "e",
      "a", "s", "e", " ", "t", "r", "y", " ", "a", "g", "a", "i", "n", ".">>

\* "Sorry, I'm having trouble connecting to the chat service right now."
ConnectionReply ==
    <<"S", "o", "r", "r", "y", ",", " ", "I", "'", "m", " ", "h", "a", "v", "i", "n",
      "g", " ", "t", "r", "o", "u", "b", "l", "e", " ", "c", "o", "n", "n", "e", "c",
      "t", "i", "n", "g", " ", "t", "o", " ", "t", "h", "e", " ", "c", "h", "a", "t",
      " ", "s", "e", "r", "v", "i", "c", "e", " ", "r", "i", "g", "h", "t", " ", "n",
      "o", "w", ".">>

MaxEvents == 2
MaxTs == 2
EventChannels == {"C1"}

\* The text of the Slack message with timestamp ts: it opens with a mention of
\* the bot and differs from message to message.  An event may also carry no text.
MessageText(ts) == <<"<", "@", "U", "1", ">", " ", "q">> \o Rep("x", ts)
EventTexts(ts) == {<<>>, MessageText(ts)}

\* What the model endpoint may answer.
Responses ==
    {<<"o", "k">>,
     THINK_OPEN \o <<"r">> \o THINK_CLOSE \o <<"*", "*", "b", "*", "*">>}

ModelOutcomes ==
    {[kind |-> "ok", response_text |-> r] : r \in Responses}
    \cup {[kind |-> "Timeout", response_text |-> <<>>],
          [kind |-> "RequestException", response_text |-> <<>>]}

\* A handler invocation before its first statement.  `faulted` records that
\* the store itself failed one of the invocation's own operations.
NewTask(type, event) ==
    [type |-> type, event |-> event, pc |-> "start", cleaned_text |-> <<>>,
     context |-> <<>>, outcome |-> "none", response_text |-> <<>>, say |-> <<>>,
     faulted |-> FALSE]

InitBot ==
    /\ pc = "serving"
    /\ UtilIdle
    /\ CtxIdle
    /\ table = <<>>
    /\ BotIdle

\* slack_events: an event arrives and app_handler.handle starts its listener.
Dispatch ==
    /\ running = 0
    /\ Len(tasks) < MaxEvents
    /\ \E type \in {"message", "app_mention"}, channel \in EventChannels, ts \in 1..MaxTs :
          \E txt \in EventTexts(ts) :
             tasks' = Append(tasks,
                        NewTask(type, [user |-> "U1", channel |-> channel, ts |-> ts,
                                       text |-> txt]))
    /\ UNCHANGED <<pc, utilVars, ctxVars, table, db_new, db_failed, running, replies, updates>>

\* The try/except around db.add and db.commit: the session afterwards.
StoreConversation(db, conversation, fault) ==
    LET committed == DbCommit(DbAdd(db, conversation), fault)
    IN  IF committed.raised THEN DbRollback(committed.db) ELSE committed.db

\* handle_message up to `await say(cleaned_text)`, where it is suspended.
HandleMessage(t, Faults) ==
    /\ running = 0
    /\ tasks[t].type = "message"
    /\ tasks[t].pc = "start"
    /\ IF tasks[t].event.text = <<>>
       THEN /\ tasks' = [tasks EXCEPT ![t].pc = "done"]
            /\ UNCHANGED <<table, db_new, db_failed>>
       ELSE \E fault \in Faults :
            LET e == tasks[t].event
                cleaned == clean_message(e.text)
                db == StoreConversation(DbState,
                          Conversation(e.user, e.channel, e.ts, cleaned, cleaned, "echo", 0),
                          fault)
            IN  /\ table' = db.table
                /\ db_new' = db.new
                /\ db_failed' = db.failed
                /\ tasks' = [tasks EXCEPT ![t].cleaned_text = cleaned,
                                          ![t].say = [text |-> cleaned],
                                          ![t].faulted = fault,
                                          ![t].pc = "saying"]
    /\ UNCHANGED <<pc, utilVars, ctxVars, running, replies, updates>>

\* handle_mention: clean the text and store the incoming message.  The
\* handler keeps the event loop until its first await.
MentionStore(t, Faults) ==
    /\ running = 0
    /\ tasks[t].type = "app_mention"
    /\ tasks[t].pc = "start"
    /\ IF tasks[t].event.text = <<>>
       THEN /\ tasks' = [tasks EXCEPT ![t].pc = "done"]
            /\ UNCHANGED <<table, db_new, db_failed, running>>
       ELSE \E fault \in Faults :
            LET e == tasks[t].event
                cleaned == clean_message(e.text)
                db == StoreConversation(DbState,
                          Conversation(e.user, e.channel, e.ts, cleaned, <<>>, MODEL_NAME, 0),
                          fault)
            IN  /\ table' = db.table
                /\ db_new' = db.new
                /\ db_failed' = db.failed
                /\ tasks' = [tasks EXCEPT ![t].cleaned_text = cleaned,
                                          ![t].faulted = fault,
                                          ![t].pc = "context"]
                /\ running' = t
    /\ UNCHANGED <<pc, utilVars, ctxVars, replies, updates>>

\* context = get_recent_conversations(db, channel, MODEL_NAME): its except
\* branch logs and returns "" and does not roll back.
MentionContext(t, Faults) ==
    /\ running = t
    /\ tasks[t].pc = "context"
    /\ \E fault \in Faults :
          IF db_failed \/ fault
          THEN /\ db_failed' = TRUE
               /\ tasks' = [tasks EXCEPT ![t].context = <<>>,
                                         ![t].faulted = @ \/ fault,
                                         ![t].pc = "call"]
          ELSE /\ db_failed' = db_failed
               /\ tasks' = [tasks EXCEPT
                     ![t].context = get_recent_conversations(table, tasks[t].event.channel,
                                                             MODEL_NAME, DefaultLimit),
                     ![t].pc = "call"]
    /\ UNCHANGED <<pc, utilVars, ctxVars, table, db_new, running, replies, updates>>

\* requests.post(...), raise_for_status, response.json(): a response, or one
\* of the two exceptions the handler catches and answers, suspended in say.
MentionCall(t) ==
    /\ running = t
    /\ tasks[t].pc = "call"
    /\ \E outcome \in ModelOutcomes :
          IF outcome.kind = "ok"
          THEN /\ tasks' = [tasks EXCEPT ![t].outcome = "ok",
                                         ![t].response_text = outcome.response_text,
                                         ![t].pc = "update"]
               /\ running' = t
          ELSE /\ tasks' = [tasks EXCEPT
                     ![t].outcome = outcome.kind,
                     ![t].say = [text |-> IF outcome.kind = "Timeout"
                                          THEN TimeoutReply ELSE ConnectionReply],
                     ![t].pc = "saying"]
               /\ running' = 0
    /\ UNCHANGED <<pc, utilVars, ctxVars, table, db_new, db_failed, replies, updates>>

\* The try/except that writes the response into the conversation found by
\* message_id, then format_slack_response and `await say(**formatted_response)`.
MentionUpdate(t, Faults) ==
    /\ running = t
    /\ tasks[t].pc = "update"
    /\ \E query_fault \in Faults, commit_fault \in Faults :
          LET ts == tasks[t].event.ts
              response_text == tasks[t].response_text
              query_raised == db_failed \/ query_fault
              conversation == IF query_raised THEN 0 ELSE DbQueryFirst(DbState, ts)
              committed ==
                  DbCommit(DbSetOutgoing(DbState, conversation, response_text), commit_fault)
              db == IF query_raised THEN DbRollback([DbState EXCEPT !.failed = TRUE])
                    ELSE IF conversation = 0 THEN DbState
                    ELSE IF committed.raised THEN DbRollback(committed.db)
                    ELSE committed.db
              updated == ~query_raised /\ conversation # 0 /\ ~committed.raised
              fault == query_fault \/ (~query_raised /\ conversation # 0 /\ commit_fault)
          IN  /\ table' = db.table
              /\ db_new' = db.new
              /\ db_failed' = db.failed
              /\ updates' = IF updated
                            THEN Append(updates, [task |-> t, message_id |-> ts])
                            ELSE updates
              /\ tasks' = [tasks EXCEPT
                    ![t].say = format_slack_response(tasks[t].response_text),
                    ![t].faulted = @ \/ fault,
                    ![t].pc = "saying"]
    /\ running' = 0
    /\ UNCHANGED <<pc, utilVars, ctxVars, replies>>

\* say(...) posts to the event's channel and the handler returns.
SayDone(t) ==
    /\ running = 0
    /\ tasks[t].pc = "saying"
    /\ replies' = Append(replies, [task |-> t, channel |-> tasks[t].event.channel,
                                   payload |-> tasks[t].say])
    /\ tasks' = [tasks EXCEPT ![t].pc = "done"]
    /\ UNCHANGED <<pc, utilVars, ctxVars, table, db_new, db_failed, running, updates>>

\* The store rejects an operation only on a message_id uniqueness violation.
NoFaults == {FALSE}
\* Any operation of the store may fail.
AnyFaults == BOOLEAN

NextBot ==
    \/ Dispatch
    \/ \E t \in DOMAIN tasks : HandleMessage(t, NoFaults)
    \/ \E t \in DOMAIN tasks : MentionStore(t, NoFaults)
    \/ \E t \in DOMAIN tasks : MentionContext(t, NoFaults)
    \/ \E t \in DOMAIN tasks : MentionCall(t)
    \/ \E t \in DOMAIN tasks : MentionUpdate(t, NoFaults)
    \/ \E t \in DOMAIN tasks : SayDone(t)

SpecBot == InitBot /\ [][NextBot]_vars

NextFaultyBot ==
    \/ Dispatch
    \/ \E t \in DOMAIN tasks : HandleMessage(t, AnyFaults)
    \/ \E t \in DOMAIN tasks : MentionStore(t, AnyFaults)
    \/ \E t \in DOMAIN tasks : MentionContext(t, AnyFaults)
    \/ \E t \in DOMAIN tasks : MentionCall(t)
    \/ \E t \in DOMAIN tasks : MentionUpdate(t, AnyFaults)
    \/ \E t \in DOMAIN tasks : SayDone(t)

SpecFaultyBot == InitBot /\ [][NextFaultyBot]_vars

-----------------------------------------------------------------------------
(* Properties of the handlers *)

\* The rows stored under message_id ts.
RowsOf(ts) == {i \in 1..Len(table) : table[i].message_id = ts}

\* The UPDATEs of outgoing_message committed for message_id ts.
UpdatesOf(ts) == {k \in DOMAIN updates : updates[k].message_id = ts}

\* The replies task t posted.
RepliesOf(t) == {k \in DOMAIN replies : replies[k].task = t}

IsMention(t) == tasks[t].type = "app_mention"
HasText(t) == tasks[t].event.text # <<>>
Answered(t) == tasks[t].outcome = "ok" /\ tasks[t].pc \in {"saying", "done"}

\* C2: against a store that rejects only a duplicate message_id, when a
\* mention handler calls the model a row with its ts exists and has an empty
\* outgoing_message; the outgoing_message of a message_id is written by a
\* model-response update at most once, and once for every mention whose
\* response arrived; message_id is unique among the rows.
C2_CreatedThenUpdatedOnce ==
    /\ \A t \in DOMAIN tasks :
          (IsMention(t) /\ tasks[t].pc = "call") =>
              \E i \in RowsOf(tasks[t].event.ts) : table[i].outgoing_message = <<>>
    /\ \A ts \in 1..MaxTs : Cardinality(UpdatesOf(ts)) <= 1
    /\ \A t \in DOMAIN tasks :
          (IsMention(t) /\ Answered(t)) => Cardinality(UpdatesOf(tasks[t].event.ts)) = 1
    /\ \A ts \in 1..MaxTs : Cardinality(RowsOf(ts)) <= 1

\* C3: whatever store operations fail, a handler that got a text posts
\* exactly one reply (the cleaned text; the formatted response when the model
\* answered), and no handler leaves the session with a failed operation that
\* no rollback followed.
C3_ReplyDespiteStoreFailure ==
    /\ \A t \in DOMAIN tasks :
          (HasText(t) /\ tasks[t].pc = "done") =>
              /\ Cardinality(RepliesOf(t)) = 1
              /\ \A k \in RepliesOf(t) :
                    /\ ~IsMention(t) =>
                          replies[k].payload = [text |-> clean_message(tasks[t].event.text)]
                    /\ (IsMention(t) /\ tasks[t].outcome = "ok") =>
                          replies[k].payload = format_slack_response(tasks[t].response_text)
    /\ running = 0 => ~db_failed

\* C4: every committed model-response update went to the row its handler
\* created (model_name the configured model, incoming_message the handler's
\* cleaned text), and a row of the echo flow keeps the outgoing_message it
\* was stored with.
C4_UpdatesOwnRecord ==
    /\ \A k \in DOMAIN updates :
          \A i \in RowsOf(updates[k].message_id) :
              /\ table[i].model_name = MODEL_NAME
              /\ table[i].incoming_message = tasks[updates[k].task].cleaned_text
    /\ \A i \in 1..Len(table) :
          table[i].model_name = "echo" => table[i].outgoing_message = table[i].incoming_message

\* The handlers so far process events with pairwise distinct ts.
DistinctTs ==
    \A a, b \in DOMAIN tasks : a # b => tasks[a].event.ts # tasks[b].event.ts

\* What the row of task t must hold.
OwnRow(t, row) ==
    /\ row.channel_id = tasks[t].event.channel
    /\ row.incoming_message = clean_message(tasks[t].event.text)
    /\ row.model_name = IF IsMention(t) THEN MODEL_NAME ELSE "echo"
    /\ row.outgoing_message =
          IF ~IsMention(t) THEN clean_message(tasks[t].event.text)
          ELSE IF Answered(t) THEN tasks[t].response_text
          ELSE <<>>

\* C6: while the events have pairwise distinct ts, however the handlers
\* interleave on the shared session, every handler that got a text and whose
\* own store operations the store did not fail has exactly one row under its
\* ts, holding its own cleaned text and (once its model call succeeded and
\* its update ran) its own response; there is no row of another origin, and
\* no handler leaves an unflushed object in the session.
C6_HandlersDoNotInterfere ==
    DistinctTs =>
        /\ \A t \in DOMAIN tasks :
              (HasText(t) /\ tasks[t].pc # "start" /\ ~tasks[t].faulted) =>
                  /\ Cardinality(RowsOf(tasks[t].event.ts)) = 1
                  /\ \A i \in RowsOf(tasks[t].event.ts) : OwnRow(t, table[i])
        /\ \A i \in 1..Len(table) :
              \E t \in DOMAIN tasks :
                  /\ HasText(t) /\ tasks[t].pc # "start"
                  /\ tasks[t].event.ts = table[i].message_id
                  /\ table[i].incoming_message = clean_message(tasks[t].event.text)
        /\ db_new = <<>>

====
